---- MODULE Spec2Model ----
(***************************************************************************)
(* The clone workflow of rubrik_oracle_backup_clone.py (the cli command)  *)
(* as a sequential state machine: one action per step of cli, with the    *)
(* answers of the backup platform, of the database engine and of the      *)
(* local filesystem drawn from small sets.                                 *)
(*                                                                         *)
(* Text values that the code takes apart (names, versions, directory      *)
(* names, host:db arguments) are sequences of one-character strings;      *)
(* values the code only passes on (paths, identifiers) are plain strings. *)
(***************************************************************************)
EXTENDS Integers, Sequences, FiniteSets, TLC

\* ------------------------------------------------------------------ bounds
\* Longest new instance name tried (the limit of the code is 8).
MaxNameLen == 9
\* Most optional command-line options given in one request.
MaxOptionsGiven == 2
\* Highest degree of parallelism tried in the script builder's own specification.
MaxParallelism == 4

\* ------------------------------------------------------- program constants
\* len(new_oracle_name) > 8
MaxOracleNameLen == 8
\* click default of --parallelism
DefaultParallelism == 4
\* database.async_requests_wait(live_mount_info['id'], 20)
MountWaitBudget == 20
\* mount.async_requests_wait(delete_request['id'], 12)
UnmountWaitBudget == 12

\* ----------------------------------------------------------------- values
\* An option that was not given (Python None): plain and text values.
None == ""
NoText == <<>>

WorkflowError == "RubrikOracleBackupMountCloneError"

\* ------------------------------------------------------- Python primitives
RECURSIVE SplitAcc(_, _, _, _)
SplitAcc(s, sep, acc, cur) ==
    IF s = <<>> THEN Append(acc, cur)
    ELSE IF Head(s) = sep THEN SplitAcc(Tail(s), sep, Append(acc, cur), <<>>)
    ELSE SplitAcc(Tail(s), sep, acc, Append(cur, Head(s)))

\* str.split(sep) for a one-character separator
Split(s, sep) == SplitAcc(s, sep, <<>>, <<>>)

DigitChars == <<"0", "1", "2", "3", "4", "5", "6", "7", "8", "9">>

DigitValue(c) == (CHOOSE i \in 1..10 : DigitChars[i] = c) - 1

RECURSIVE ParseIntAcc(_, _)
ParseIntAcc(s, acc) ==
    IF s = <<>> THEN acc ELSE ParseIntAcc(Tail(s), 10 * acc + DigitValue(Head(s)))

\* int(s) for a string of decimal digits
ParseInt(s) == ParseIntAcc(s, 0)

\* str(n) for 0 <= n < 100
IntToStr(n) ==
    IF n < 10 THEN <<DigitChars[n + 1]>>
    ELSE <<DigitChars[(n \div 10) + 1], DigitChars[(n % 10) + 1]>>

\* needle in haystack
Contains(haystack, needle) ==
    \E i \in 0..(Len(haystack) - Len(needle)) :
        SubSeq(haystack, i + 1, i + Len(needle)) = needle

RECURSIVE RemoveChar(_, _)
\* s.replace(c, "")
RemoveChar(s, c) ==
    IF s = <<>> THEN <<>>
    ELSE IF Head(s) = c THEN RemoveChar(Tail(s), c)
    ELSE <<Head(s)>> \o RemoveChar(Tail(s), c)

\* configparser's getboolean: the value lower-cased, looked up in BOOLEAN_STATES
LowerValue(v) ==
    CASE v = "True" -> "true"
      [] v = "False" -> "false"
      [] OTHER -> v

GetBoolean(v) == LowerValue(v) \in {"1", "yes", "true", "on"}

\* ------------------------------------------------------------ input pools
BaseName == <<"o", "r", "a", "1", "d", "b", "x", "y", "z", "w", "v">>

NameOfLen(k) == SubSeq(BaseName, 1, k)

\* --new_oracle_name: a short name, and the names around the length limit
NewOracleNames == {NameOfLen(k) : k \in {3} \cup (MaxOracleNameLen..MaxNameLen)}

\* --source_host_db: host:db, and an argument without the colon
SourceArgs == {<<"h", ":">> \o NameOfLen(3), <<"h">>}

\* --time_restore in iso 8601 format
TimeArg == <<"2", "0", "2", "0", "-", "1", "1", "-", "0", "6", "T",
             "0", "0", ":", "0", "6", ":", "0", "0">>

\* the five optional directives, given together or not at all
DirectiveSets ==
    {[control_files |-> None, db_file_name_convert |-> None,
      log_file_name_convert |-> None, audit_file_dest |-> None,
      core_dump_dest |-> None],
     [control_files |-> "'/c1.ctl','/c2.ctl'", db_file_name_convert |-> "'/d1/','/d2/'",
      log_file_name_convert |-> "'/l1/','/l2/'", audit_file_dest |-> "'/adump'",
      core_dump_dest |-> "'/cdump'"]}

\* the [parameters] section of a configuration file: key -> value as written
ConfigFiles ==
    {[k \in {"refresh_db"} |-> "true"],
     [k \in {"refresh_db", "no_file_name_check"} |->
         IF k = "refresh_db" THEN "True" ELSE "false"],
     [k \in {"no_spfile"} |-> "true"],
     [k \in {"no_file_name_check", "log_path", "oracle_home"} |->
         CASE k = "log_path" -> "/cfg_logs"
           [] k = "oracle_home" -> "/u01/cfg_home"
           [] OTHER -> "yes"]}

\* ------------------------------------------------------ environment pools
\* platform.uname()[1]
Hostname == <<"t", "g", "t", ".", "c", "o">>

VersionString(major, minor, patch) ==
    IntToStr(major) \o <<".">> \o IntToStr(minor) \o <<".">> \o IntToStr(patch)
        \o <<"-", "p", "1">>

\* rubrik.version
Versions ==
    {VersionString(4, 2, 5), VersionString(5, 0, 7), VersionString(5, 2, 1),
     VersionString(6, 0, 0)}

RecoveryPoint == <<"2", "0", "2", "0", "-", "1", "1", "-", "0", "8", "T",
                   "0", "1", ":", "0", "0", ":", "0", "0">>

\* database.get_oracle_db_info(): racName missing, empty, or the cluster's name
DbInfos ==
    {[oracleHome |-> "/u01/src_home", latestRecoveryPoint |-> RecoveryPoint],
     [oracleHome |-> "/u01/src_home", latestRecoveryPoint |-> RecoveryPoint,
      racName |-> ""],
     [oracleHome |-> "/u01/src_home", latestRecoveryPoint |-> RecoveryPoint,
      racName |-> "rac1"]}

\* the status field of an asynchronous request as the wait hands it back
Statuses == {"SUCCEEDED", "FAILED", "CANCELED", "TIMEOUT", "RUNNING"}

\* entries of the mount path
StaleDir == <<"s", "_", "7">>
MountDir == <<"n", "_", "1", "2", "_", "f">>
PlainDir == <<"p", "l">>
DirPool == {StaleDir, MountDir, PlainDir}

\* answers of sqlplus and rman: text as a sequence of symbols, an engine message
\* being one symbol
AlreadyRunning == <<"ORA-01081: cannot start already-running ORACLE">>
ShutdownReturns == {<<"ORACLE instance shut down.">>, <<"ORA-01034: ORACLE not available">>}
StartupReturns == {<<"ORACLE instance started.">>, <<"banner">> \o AlreadyRunning}
IdentityReturns ==
    {<<"INSTANCE_NAME", "\n">> \o NameOfLen(3),
     <<"INSTANCE_NAME", "\n">> \o NameOfLen(MaxOracleNameLen),
     <<"INSTANCE_NAME", "\n">> \o NameOfLen(MaxOracleNameLen + 1),
     <<"ORA-01034: ORACLE not available">>}
RmanReturns == {<<"Finished Duplicate Db">>, <<"RMAN-03002: failure of Duplicate Db command">>}

\* ---------------------------------------------------------------- state
\* the options of cli (lines 13-29); the code reassigns some of them
VARIABLES source_host_db, mount_path, new_oracle_name, configuration_file,
          time_restore, oracle_home, parallelism, no_spfile, no_file_name_check,
          refresh_db, control_files, db_file_name_convert, log_file_name_convert,
          audit_file_dest, core_dump_dest, log_path

\* the locals of cli
VARIABLES configuration,         \* the parsed configuration file (line 99)
          source_host_db_list,   \* source_host_db after line 136 (a list)
          host_target, rubrik_version, cdm_version, oracle_db_info, target_id,
          time_ms, live_mount_directories, new_live_mount_directories,
          live_mount_directory, backup_path, live_mount_id, live_mount_info,
          sql_return, init_file, duplicate_commands, delete_request

\* what the run did to the outside
VARIABLES pc,        \* the next step of cli; "done" after return, "aborted" after a raise
          error,     \* the exception that ended the run, "none" otherwise
          calls,     \* the calls made to rbs_oracle_common, in order: <<name, arguments>>
          fs,        \* directories and files the run created (the init file with its text)
          environ,   \* os.environ["ORACLE_HOME"], os.environ["ORACLE_SID"]
          log        \* the records handed to the logger: <<level, message, value>>

optionVars == <<source_host_db, mount_path, new_oracle_name, configuration_file,
                time_restore, oracle_home, parallelism, no_spfile,
                no_file_name_check, refresh_db, control_files, db_file_name_convert,
                log_file_name_convert, audit_file_dest, core_dump_dest, log_path>>

localVars == <<configuration, source_host_db_list, host_target, rubrik_version, cdm_version,
               oracle_db_info, target_id, time_ms, live_mount_directories,
               new_live_mount_directories, live_mount_directory, backup_path,
               live_mount_id, live_mount_info, sql_return, init_file,
               duplicate_commands, delete_request>>

effectVars == <<pc, error, calls, fs, environ, log>>

vars == <<optionVars, localVars, effectVars>>

\* a local that has not been assigned yet: a list or text, a set, a dict
Unbound == <<"<unbound>">>
UnboundSet == {Unbound}
UnboundDict == [unbound |-> TRUE]

\* 1 for an option that is given, 0 for one left at its default
Given(present) == IF present THEN 1 ELSE 0

Init ==
    /\ source_host_db \in SourceArgs
    /\ mount_path = "/u02/restore"
    /\ new_oracle_name \in NewOracleNames
    /\ configuration_file \in {None, "/home/oracle/clone_config.txt"}
    /\ time_restore \in {NoText, TimeArg}
    /\ oracle_home \in {None, "/u01/new_home"}
    /\ parallelism = IntToStr(DefaultParallelism)
    /\ no_spfile \in BOOLEAN
    /\ no_file_name_check \in BOOLEAN
    /\ refresh_db \in BOOLEAN
    /\ \E d \in DirectiveSets :
          /\ control_files = d.control_files
          /\ db_file_name_convert = d.db_file_name_convert
          /\ log_file_name_convert = d.log_file_name_convert
          /\ audit_file_dest = d.audit_file_dest
          /\ core_dump_dest = d.core_dump_dest
    /\ log_path \in {None, "/home/oracle/clone_logs"}
    /\ Given(configuration_file # None) + Given(time_restore # NoText)
          + Given(oracle_home # None) + Given(no_spfile) + Given(no_file_name_check)
          + Given(refresh_db) + Given(control_files # None) + Given(log_path # None)
          <= MaxOptionsGiven
    /\ configuration = UnboundDict
    /\ source_host_db_list = Unbound
    /\ host_target = Unbound
    /\ rubrik_version = Unbound
    /\ cdm_version = Unbound
    /\ oracle_db_info = UnboundDict
    /\ target_id = Unbound
    /\ time_ms = Unbound
    /\ live_mount_directories = UnboundSet
    /\ new_live_mount_directories = UnboundSet
    /\ live_mount_directory = UnboundSet
    /\ backup_path = Unbound
    /\ live_mount_id = Unbound
    /\ live_mount_info = UnboundDict
    /\ sql_return = Unbound
    /\ init_file = Unbound
    /\ duplicate_commands = Unbound
    /\ delete_request = UnboundDict
    /\ pc = "read_configuration"
    /\ error = "none"
    /\ calls = <<>>
    /\ fs = {}
    /\ environ = [ORACLE_HOME |-> None, ORACLE_SID |-> NoText]
    /\ log = <<>>

\* ------------------------------------------------------------- bookkeeping
Logged(records) == log' = log \o records

Called(name, arguments) == calls' = Append(calls, <<name, arguments>>)

\* mutant: an error raised while the backup is mounted goes on to the unmount
RaiseAfterCleanup(kind) ==
    /\ pc' = (IF live_mount_id # Unbound THEN "request_unmount" ELSE "aborted")
    /\ error' = kind

\* raise: the run ends with the exception
Raise(kind) == pc' = "aborted" /\ error' = kind

Goto(step) == pc' = step /\ error' = error

\* ------------------------------------------------------------------ steps
\* lines 98-124: the configuration file overrides the options it has a key for
FromFile(section, key, given) == IF key \in DOMAIN section THEN section[key] ELSE given

\* line 105 reads the key spfile: SectionProxy.getboolean gives None when the
\* section has no such key, and None is false wherever no_spfile is tested
NoSpfileFromFile(section, given) ==
    IF "no_spfile" \in DOMAIN section
    THEN ("spfile" \in DOMAIN section) /\ GetBoolean(section["spfile"])
    ELSE given

BoolFromFile(section, key, given) ==
    IF key \in DOMAIN section THEN GetBoolean(section[key]) ELSE given

ReadConfiguration ==
    /\ pc = "read_configuration"
    /\ IF configuration_file # None
       THEN \E section \in ConfigFiles :
              /\ configuration' = section
              /\ parallelism' = FromFile(section, "parallelism", parallelism)
              /\ no_spfile' = NoSpfileFromFile(section, no_spfile)
              /\ no_file_name_check' =
                    BoolFromFile(section, "no_file_name_check", no_file_name_check)
              /\ refresh_db' = BoolFromFile(section, "refresh_db", refresh_db)
              /\ control_files' = FromFile(section, "control_files", control_files)
              /\ db_file_name_convert' =
                    FromFile(section, "db_file_name_convert", db_file_name_convert)
              /\ log_file_name_convert' =
                    FromFile(section, "log_file_name_convert", log_file_name_convert)
              /\ log_path' = FromFile(section, "log_path", log_path)
              /\ time_restore' = FromFile(section, "time_restore", time_restore)
              /\ audit_file_dest' = FromFile(section, "audit_file_dest", audit_file_dest)
              /\ core_dump_dest' = FromFile(section, "core_dump_dest", core_dump_dest)
              /\ Logged(<<<<"DEBUG", "Parameters for duplicate loaded from file", None>>>>)
       ELSE /\ UNCHANGED <<parallelism, no_spfile, no_file_name_check, refresh_db,
                           control_files, db_file_name_convert, log_file_name_convert,
                           log_path, time_restore, audit_file_dest, core_dump_dest>>
            /\ UNCHANGED <<configuration, log>>
    /\ Goto("file_logging")
    /\ UNCHANGED <<source_host_db, mount_path, new_oracle_name, configuration_file,
                   oracle_home>>
    /\ UNCHANGED <<source_host_db_list, host_target, rubrik_version, cdm_version,
                   oracle_db_info, target_id, time_ms, live_mount_directories,
                   new_live_mount_directories, live_mount_directory, backup_path,
                   live_mount_id, live_mount_info, sql_return, init_file,
                   duplicate_commands, delete_request>>
    /\ UNCHANGED <<calls, fs, environ>>

\* lines 126-134: the log directory and the log file
LogDirectory(path) == <<"directory", path>>
LogFile(path, name) == <<"logfile", path, name, "_Clone_<now>.log">>

\* mutant: the log goes to the mount path when no log path is given
LogArtifactsDefaultToMountPath(path, name) ==
    IF path # None THEN {LogDirectory(path), LogFile(path, name)}
    ELSE {LogDirectory(mount_path), LogFile(mount_path, name)}

\* line 127: nothing is created when no log path is given
LogArtifacts(path, name) ==
    IF path # None THEN {LogDirectory(path), LogFile(path, name)} ELSE {}

SetUpFileLogging ==
    /\ pc = "file_logging"
    /\ fs' = fs \cup LogArtifacts(log_path, new_oracle_name)
    /\ Goto("validate_input")
    /\ UNCHANGED <<optionVars, localVars, calls, environ, log>>

\* mutant: the length limit is off by one
NameTooLongOffByOne(name) == Len(name) > MaxOracleNameLen + 1

\* mutant: the name is compared with the host part of the argument
SameAsSourceHost(name, source_list) == name = source_list[1]

\* lines 140 and 143: the two checks on the new name
NameTooLong(name) == Len(name) > MaxOracleNameLen

SameAsSource(name, source_list) == name = source_list[2]

\* lines 136-145 (lists are 1-based here: source_host_db[1] is element 2)
ValidateInput ==
    /\ pc = "validate_input"
    /\ source_host_db_list' = Split(source_host_db, ":")
    /\ host_target' = Split(Hostname, ".")[1]
    /\ LET hostLog == <<"DEBUG", "The hostname used for the target host is", host_target'>>
       IN  IF NameTooLong(new_oracle_name)
           THEN /\ Logged(<<hostLog, <<"DEBUG", "The new oracle name is too long",
                                        new_oracle_name>>>>)
                /\ Raise(WorkflowError)
           ELSE IF Len(source_host_db_list') < 2
           THEN /\ Logged(<<hostLog>>)
                /\ Raise("IndexError")
           ELSE IF SameAsSource(new_oracle_name, source_host_db_list')
           THEN /\ Logged(<<hostLog, <<"DEBUG",
                     "The new oracle db name cannot be the same as the source db name",
                     new_oracle_name>>>>)
                /\ Raise(WorkflowError)
           ELSE /\ Logged(<<hostLog>>)
                /\ Goto("connect")
    /\ UNCHANGED <<optionVars, configuration, rubrik_version, cdm_version, oracle_db_info, target_id,
                   time_ms, live_mount_directories, new_live_mount_directories,
                   live_mount_directory, backup_path, live_mount_id, live_mount_info,
                   sql_return, init_file, duplicate_commands, delete_request>>
    /\ UNCHANGED <<calls, fs, environ>>

\* lines 147-149: the connection, the database object and its metadata
Connect ==
    /\ pc = "connect"
    /\ rubrik_version' \in Versions
    /\ oracle_db_info' \in DbInfos
    /\ calls' = calls \o <<<<"RubrikConnection", <<>>>>,
                           <<"RubrikRbsOracleDatabase",
                             <<source_host_db_list[2], source_host_db_list[1]>>>>,
                           <<"get_oracle_db_info", <<>>>>>>
    /\ Goto("resolve_target")
    /\ UNCHANGED <<optionVars, configuration, source_host_db_list, host_target,
                   cdm_version, target_id,
                   time_ms, live_mount_directories, new_live_mount_directories,
                   live_mount_directory, backup_path, live_mount_id, live_mount_info,
                   sql_return, init_file, duplicate_commands, delete_request>>
    /\ UNCHANGED <<fs, environ, log>>

\* line 151
CdmVersion(version) == Split(Split(version, "-")[1], ".")

\* line 152: the test the code makes for "pre 5.2.1"
PreThreshold(v) ==
    /\ ParseInt(v[1]) < 6
    /\ ParseInt(v[2]) < 3
    /\ (ParseInt(v[2]) < 2 \/ ParseInt(v[3]) < 1)

\* lines 152-161: the lookup the code calls, "none" when it calls none
TargetLookup(v, info) ==
    IF PreThreshold(v)
    THEN IF "racName" \in DOMAIN info
         THEN IF info.racName # "" THEN "get_rac_id" ELSE "get_host_id"
         ELSE "none"
    ELSE "get_target_id"

\* what a lookup of rbs_oracle_common may do: give the identifier, or fail
LookupOutcomes == {"resolved", "unresolved"}

ResolveTarget ==
    /\ pc = "resolve_target"
    /\ cdm_version' = CdmVersion(rubrik_version)
    /\ LET lookup == TargetLookup(cdm_version', oracle_db_info)
           versionLog ==
               IF PreThreshold(cdm_version')
               THEN <<"INFO", "Cluster version is pre 5.2.1", cdm_version'>>
               ELSE <<"INFO", "Cluster version is post 5.2.1", cdm_version'>>
       IN  /\ Logged(<<versionLog>>)
           /\ IF lookup = "none"
              THEN /\ UNCHANGED <<target_id, calls>>
                   /\ Goto("resolve_time")
              ELSE \E outcome \in LookupOutcomes :
                     /\ Called(lookup, <<"cluster_id", host_target>>)
                     /\ IF outcome = "resolved"
                        THEN /\ target_id' = <<lookup, host_target>>
                             /\ Goto("resolve_time")
                        ELSE /\ UNCHANGED target_id
                             /\ Raise(WorkflowError)
    /\ UNCHANGED <<optionVars, configuration, source_host_db_list, host_target, rubrik_version,
                   oracle_db_info, time_ms, live_mount_directories,
                   new_live_mount_directories, live_mount_directory, backup_path,
                   live_mount_id, live_mount_info, sql_return, init_file,
                   duplicate_commands, delete_request>>
    /\ UNCHANGED <<fs, environ>>

\* lines 163-168: the restore time given, or the latest recovery point
TimeToResolve(given, info) == IF given # NoText THEN given ELSE info.latestRecoveryPoint

\* database.epoch_time(time, timezone): the backend's value for that time
EpochTime(time, timezone) == <<"epoch_ms", time, timezone>>

ResolveTime ==
    /\ pc = "resolve_time"
    /\ LET time == TimeToResolve(time_restore, oracle_db_info)
       IN  /\ time_ms' = EpochTime(time, "timezone")
           /\ Called("epoch_time", <<time, "timezone">>)
    /\ Logged(IF time_restore # NoText
              THEN <<<<"WARNING", "Materializing backup set from time", time_restore>>>>
              ELSE <<<<"WARNING", "Using most recent recovery point for mount.", None>>>>)
    /\ Goto("check_home")
    /\ UNCHANGED <<optionVars, configuration, source_host_db_list, host_target, rubrik_version,
                   cdm_version, oracle_db_info, target_id, live_mount_directories,
                   new_live_mount_directories, live_mount_directory, backup_path,
                   live_mount_id, live_mount_info, sql_return, init_file,
                   duplicate_commands, delete_request>>
    /\ UNCHANGED <<fs, environ>>

\* lines 170-174: the ORACLE_HOME given, or the source's; it must exist here
HomeToUse(given, info) == IF given = None THEN info.oracleHome ELSE given

CheckOracleHome ==
    /\ pc = "check_home"
    /\ oracle_home' = HomeToUse(oracle_home, oracle_db_info)
    /\ \E exists \in BOOLEAN :
          IF exists
          THEN /\ Goto("snapshot_listing")
               /\ UNCHANGED log
          ELSE /\ Logged(<<<<"DEBUG", "The ORACLE_HOME does not exist on the target host",
                             oracle_home'>>>>)
               /\ Raise(WorkflowError)
    /\ UNCHANGED <<source_host_db, mount_path, new_oracle_name, configuration_file,
                   time_restore, parallelism, no_spfile, no_file_name_check, refresh_db,
                   control_files, db_file_name_convert, log_file_name_convert,
                   audit_file_dest, core_dump_dest, log_path>>
    /\ UNCHANGED <<localVars, calls, fs, environ>>

\* line 176: the entries of the mount path before the mount
SnapshotListing ==
    /\ pc = "snapshot_listing"
    /\ live_mount_directories' \in SUBSET {StaleDir}
    /\ Goto("request_mount")
    /\ UNCHANGED <<optionVars, configuration, source_host_db_list, host_target, rubrik_version,
                   cdm_version, oracle_db_info, target_id, time_ms,
                   new_live_mount_directories, live_mount_directory, backup_path,
                   live_mount_id, live_mount_info, sql_return, init_file,
                   duplicate_commands, delete_request>>
    /\ UNCHANGED <<calls, fs, environ, log>>

\* lines 177-178: reading target_id raises when no branch of lines 152-161 bound it
RequestMount ==
    /\ pc = "request_mount"
    /\ Logged(<<<<"WARNING", "Starting the mount of the requested backup pieces",
                  source_host_db_list[2]>>>>)
    /\ IF target_id = Unbound
       THEN /\ Raise("UnboundLocalError")
            /\ UNCHANGED <<calls, live_mount_info>>
       ELSE /\ Called("live_mount", <<target_id, time_ms, "files_only", mount_path>>)
            /\ live_mount_info' = [id |-> "mount_request", status |-> "QUEUED"]
            /\ Goto("await_mount")
    /\ UNCHANGED <<optionVars, configuration, source_host_db_list, host_target, rubrik_version,
                   cdm_version, oracle_db_info, target_id, time_ms,
                   live_mount_directories, new_live_mount_directories,
                   live_mount_directory, backup_path, live_mount_id, sql_return,
                   init_file, duplicate_commands, delete_request>>
    /\ UNCHANGED <<fs, environ>>

\* mutant: only FAILED is fatal
MountFailedOnly(status) == status = "FAILED"

\* line 182: the test that makes the mount's status fatal
MountNotSucceeded(status) == status # "SUCCEEDED"

\* mutant: a mount that did not succeed is requested again
AwaitMountRetrying ==
    /\ pc = "await_mount"
    /\ \E status \in Statuses :
          /\ live_mount_info' = [id |-> live_mount_info.id, status |-> status]
          /\ Called("async_requests_wait", <<live_mount_info.id, MountWaitBudget>>)
          /\ Logged(<<<<"DEBUG", "Backup Live Mount Asyc Request", status>>,
                      <<"INFO", "Async request completed with status", status>>>>)
          /\ Goto(IF MountNotSucceeded(status) THEN "request_mount" ELSE "discover")
    /\ UNCHANGED <<optionVars, configuration, source_host_db_list, host_target,
                   rubrik_version, cdm_version, oracle_db_info, target_id, time_ms,
                   live_mount_directories, new_live_mount_directories,
                   live_mount_directory, backup_path, live_mount_id, sql_return,
                   init_file, duplicate_commands, delete_request>>
    /\ UNCHANGED <<fs, environ>>

\* lines 179-185: the wait hands back the request with its last status
AwaitMount ==
    /\ pc = "await_mount"
    /\ \E status \in Statuses :
          /\ live_mount_info' = [id |-> live_mount_info.id, status |-> status]
          /\ Called("async_requests_wait", <<live_mount_info.id, MountWaitBudget>>)
          /\ LET done == <<<<"DEBUG", "Backup Live Mount Asyc Request", status>>,
                           <<"INFO", "Async request completed with status", status>>>>
             IN  IF MountNotSucceeded(status)
                 THEN /\ Logged(done \o <<<<"DEBUG",
                             "Mount of backup files did not complete successfully",
                             status>>>>)
                      /\ Raise(WorkflowError)
                 ELSE /\ Logged(done \o <<<<"WARNING",
                             "Live mount of the backup files completed.", None>>>>)
                      /\ Goto("discover")
    /\ UNCHANGED <<optionVars, configuration, source_host_db_list, host_target, rubrik_version,
                   cdm_version, oracle_db_info, target_id, time_ms,
                   live_mount_directories, new_live_mount_directories,
                   live_mount_directory, backup_path, live_mount_id, sql_return,
                   init_file, duplicate_commands, delete_request>>
    /\ UNCHANGED <<fs, environ>>

\* mutant: the listing after the mount, the earlier entries not taken out
NewEntriesNotSubtracted(after, before) == after

\* lines 187-196: the entries that appeared, the mount's directory and its id
NewEntries(after, before) == after \ before

\* line 195: live_mount_directory[0].split('_')[1]
MountIdTokens(name) == Split(name, "_")

DiscoverMountDirectory ==
    /\ pc = "discover"
    /\ new_live_mount_directories' \in SUBSET DirPool
    /\ live_mount_directory' =
          NewEntries(new_live_mount_directories', live_mount_directories)
    /\ IF Cardinality(live_mount_directory') = 1
       THEN LET name == CHOOSE d \in live_mount_directory' : TRUE
            IN  /\ backup_path' = <<mount_path, name>>
                /\ IF Len(MountIdTokens(name)) < 2
                   THEN /\ Logged(<<<<"INFO", "Using the live mount path", backup_path'>>>>)
                        /\ UNCHANGED live_mount_id
                        /\ Raise("IndexError")
                   ELSE /\ live_mount_id' = MountIdTokens(name)[2]
                        /\ Logged(<<<<"INFO", "Using the live mount path", backup_path'>>,
                                    <<"DEBUG", "Live mount ID is", live_mount_id'>>>>)
                        /\ Goto("set_environment")
       ELSE /\ Logged(<<<<"DEBUG",
                 "Multiple directories were created. Live mount directory cannot be determined",
                 mount_path>>>>)
            /\ UNCHANGED <<backup_path, live_mount_id>>
            /\ Raise(WorkflowError)
    /\ UNCHANGED <<optionVars, configuration, source_host_db_list, host_target, rubrik_version,
                   cdm_version, oracle_db_info, target_id, time_ms,
                   live_mount_directories, live_mount_info, sql_return, init_file,
                   duplicate_commands, delete_request>>
    /\ UNCHANGED <<calls, fs, environ>>

\* lines 198-200
SetEnvironment ==
    /\ pc = "set_environment"
    /\ environ' = [ORACLE_HOME |-> oracle_home, ORACLE_SID |-> new_oracle_name]
    /\ Logged(<<<<"DEBUG", "Setting env variable ORACLE_HOME, ORACLE_SID", None>>>>)
    /\ Goto("refresh_shutdown")
    /\ UNCHANGED <<optionVars, localVars, calls, fs>>

\* mutant: a shutdown that the engine answers with an error ends the run
RefreshShutdownChecked ==
    /\ pc = "refresh_shutdown"
    /\ IF refresh_db
       THEN \E answer \in ShutdownReturns :
              /\ Called("sqlplus_sysdba", <<oracle_home, "shutdown immediate;">>)
              /\ Logged(<<<<"WARNING", "Shutting down database for refresh",
                            new_oracle_name>>,
                          <<"INFO", "sqlplus", answer>>>>)
              /\ IF answer = <<"ORACLE instance shut down.">>
                 THEN Goto("start_auxiliary")
                 ELSE Raise(WorkflowError)
       ELSE /\ UNCHANGED <<calls, log>>
            /\ Goto("start_auxiliary")
    /\ UNCHANGED <<optionVars, localVars, fs, environ>>

\* lines 202-204
RefreshShutdown ==
    /\ pc = "refresh_shutdown"
    /\ IF refresh_db
       THEN \E answer \in ShutdownReturns :
              /\ Called("sqlplus_sysdba", <<oracle_home, "shutdown immediate;">>)
              /\ Logged(<<<<"WARNING", "Shutting down database for refresh",
                            new_oracle_name>>,
                          <<"INFO", "sqlplus", answer>>>>)
       ELSE UNCHANGED <<calls, log>>
    /\ Goto("start_auxiliary")
    /\ UNCHANGED <<optionVars, localVars, fs, environ>>

\* line 211: os.path.join(oracle_home, 'dbs', 'init{}.ora'.format(new_oracle_name))
InitFile(home, name) == <<home, "dbs", <<"init">> \o name \o <<".ora">>>>

\* line 214: what the init file holds
InitFileText(name) == <<"db_name=">> \o name \o <<"\n">>

\* mutant: the init file is written when no_spfile is true
WritesInitFileWhenSkipping(flag) == flag

\* lines 205-217: the init file is written when no_spfile is false
WritesInitFile(flag) == ~flag

StartAuxiliary ==
    /\ pc = "start_auxiliary"
    /\ \E answer \in StartupReturns :
          /\ sql_return' = answer
          /\ IF WritesInitFile(no_spfile)
             THEN /\ init_file' = InitFile(oracle_home, new_oracle_name)
                  /\ fs' = fs \cup {<<"initfile", init_file', InitFileText(new_oracle_name)>>}
                  /\ Called("sqlplus_sysdba",
                            <<oracle_home, "startup nomount pfile=", init_file'>>)
                  /\ Logged(<<<<"WARNING", "Creating minimal init file to start instance",
                                None>>,
                              <<"DEBUG", "Creating new temporary init file", init_file'>>,
                              <<"WARNING", "Starting auxiliary instance", None>>,
                              <<"INFO", "sqlplus", answer>>>>)
             ELSE /\ UNCHANGED <<init_file, fs>>
                  /\ Called("sqlplus_sysdba", <<oracle_home, "startup nomount">>)
                  /\ Logged(<<<<"WARNING", "Starting auxiliary instance", None>>,
                              <<"INFO", "sqlplus", answer>>>>)
    /\ Goto("check_running")
    /\ UNCHANGED <<optionVars, configuration, source_host_db_list, host_target, rubrik_version,
                   cdm_version, oracle_db_info, target_id, time_ms,
                   live_mount_directories, new_live_mount_directories,
                   live_mount_directory, backup_path, live_mount_id, live_mount_info,
                   duplicate_commands, delete_request>>
    /\ UNCHANGED environ

\* lines 219-221
CheckAlreadyRunning ==
    /\ pc = "check_running"
    /\ IF Contains(sql_return, AlreadyRunning)
       THEN /\ Logged(<<<<"DEBUG", "There is an instance all ready running on this host",
                          new_oracle_name>>>>)
            /\ Raise(WorkflowError)
       ELSE /\ UNCHANGED log
            /\ Goto("query_instance")
    /\ UNCHANGED <<optionVars, localVars, calls, fs, environ>>

\* line 224: the test the code makes on the answer of the identity query
InstanceCheckFails(name, answer) == ~Contains(answer, name)

\* lines 222-226
QueryInstance ==
    /\ pc = "query_instance"
    /\ \E answer \in IdentityReturns :
          /\ sql_return' = answer
          /\ Called("sqlplus_sysdba",
                    <<oracle_home, "select instance_name from v$instance;">>)
          /\ IF InstanceCheckFails(new_oracle_name, answer)
             THEN /\ Logged(<<<<"INFO", "sqlplus", answer>>,
                              <<"DEBUG", "DB Instance check failed", new_oracle_name>>>>)
                  /\ Raise(WorkflowError)
             ELSE /\ Logged(<<<<"INFO", "sqlplus", answer>>>>)
                  /\ Goto("build_script")
    /\ UNCHANGED <<optionVars, configuration, source_host_db_list, host_target, rubrik_version,
                   cdm_version, oracle_db_info, target_id, time_ms,
                   live_mount_directories, new_live_mount_directories,
                   live_mount_directory, backup_path, live_mount_id, live_mount_info,
                   init_file, duplicate_commands, delete_request>>
    /\ UNCHANGED <<fs, environ>>

\* mutant: the channel's number is x, not x + 1
RECURSIVE ChannelsFromZero(_)
ChannelsFromZero(n) ==
    IF n = 0 THEN <<>>
    ELSE ChannelsFromZero(n - 1) \o <<"allocate auxiliary channel aux">>
             \o IntToStr(n - 1) \o <<" device type disk; ">>

\* lines 230-232: one allocate clause per channel, aux1 .. auxN
RECURSIVE Channels(_)
Channels(n) ==
    IF n = 0 THEN <<>>
    ELSE Channels(n - 1) \o <<"allocate auxiliary channel aux">> \o IntToStr(n)
             \o <<" device type disk; ">>

\* line 235: time_restore.replace("T", "")
NormalizedTime(time) == RemoveChar(time, "T")

\* mutant: the set-clause is written whether or not its value is given
SetClauseAlways(keyword, value) == <<keyword, value, " ">>

\* a set-clause of lines 239-248, present when its value is given
SetClause(keyword, value) ==
    IF value # None THEN <<keyword, value, " ">> ELSE <<>>

\* lines 229-253: the duplicate script, as the sequence of its pieces of text
DuplicateCommands(name, source_db, degree, time, nospfile, controls, dbconvert, logconvert, audit, coredump, backup_location, nocheck) ==
    <<"run { ">>
        \o Channels(ParseInt(degree))
        \o <<"duplicate database to ">> \o name \o <<" ">>
        \o (IF time # NoText
            THEN <<"until time \"TO_DATE('">> \o NormalizedTime(time)
                     \o <<"','YYYY-MM-DD HH24:MI:SS')\"  ">>
            ELSE <<>>)
        \o (IF ~nospfile
            THEN <<"SPFILE parameter_value_convert ('">> \o source_db \o <<"','">>
                     \o name \o <<"') ">>
            ELSE <<>>)
        \o SetClause("set  control_files = ", controls)
        \o SetClause("set  db_file_name_convert = ", dbconvert)
        \o SetClause("set  log_file_name_convert = ", logconvert)
        \o SetClause("set  audit_file_dest = ", audit)
        \o SetClause("set  core_dump_dest = ", coredump)
        \o <<"BACKUP LOCATION '", backup_location, "' ">>
        \o (IF nocheck THEN <<"NOFILENAMECHECK; }">> ELSE <<"; }">>)

\* lines 228-256
BuildScript ==
    /\ pc = "build_script"
    /\ duplicate_commands' =
          DuplicateCommands(new_oracle_name, source_host_db_list[2], parallelism,
                            time_restore, no_spfile, control_files,
                            db_file_name_convert, log_file_name_convert,
                            audit_file_dest, core_dump_dest, mount_path,
                            no_file_name_check)
    /\ time_restore' = IF time_restore # NoText THEN NormalizedTime(time_restore)
                       ELSE time_restore
    /\ Logged(<<<<"WARNING", "Beginning duplicate", new_oracle_name>>,
                <<"DEBUG", "Duplicate script", duplicate_commands'>>>>)
    /\ Goto("execute_restore")
    /\ UNCHANGED <<source_host_db, mount_path, new_oracle_name, configuration_file,
                   oracle_home, parallelism, no_spfile, no_file_name_check, refresh_db,
                   control_files, db_file_name_convert, log_file_name_convert,
                   audit_file_dest, core_dump_dest, log_path>>
    /\ UNCHANGED <<configuration, source_host_db_list, host_target, rubrik_version, cdm_version,
                   oracle_db_info, target_id, time_ms, live_mount_directories,
                   new_live_mount_directories, live_mount_directory, backup_path,
                   live_mount_id, live_mount_info, sql_return, init_file,
                   delete_request>>
    /\ UNCHANGED <<calls, fs, environ>>

\* mutant: an answer of rman that reports a failure ends the run
ExecuteRestoreInspectingOutput ==
    /\ pc = "execute_restore"
    /\ Called("rman", <<oracle_home, duplicate_commands, "auxiliary">>)
    /\ \/ \E answer \in RmanReturns :
             IF answer = <<"Finished Duplicate Db">>
             THEN /\ Logged(<<<<"INFO", "rman", answer>>,
                              <<"WARNING", "Duplicate of database complete.",
                                new_oracle_name>>>>)
                  /\ Goto("request_unmount")
             ELSE /\ Logged(<<<<"INFO", "rman", answer>>>>)
                  /\ Raise(WorkflowError)
       \/ /\ UNCHANGED log
          /\ Raise(WorkflowError)
    /\ UNCHANGED <<optionVars, localVars, fs, environ>>

\* lines 257-258: the answer of rman is logged and not looked at; the call may raise
ExecuteRestore ==
    /\ pc = "execute_restore"
    /\ Called("rman", <<oracle_home, duplicate_commands, "auxiliary">>)
    /\ \/ \E answer \in RmanReturns :
             /\ Logged(<<<<"INFO", "rman", answer>>,
                         <<"WARNING", "Duplicate of database complete.",
                           new_oracle_name>>>>)
             /\ Goto("request_unmount")
       \/ /\ UNCHANGED log
          /\ Raise(WorkflowError)
    /\ UNCHANGED <<optionVars, localVars, fs, environ>>

\* lines 260-262
RequestUnmount ==
    /\ pc = "request_unmount"
    /\ calls' = calls \o <<<<"RubrikRbsOracleMount",
                             <<source_host_db_list[2], source_host_db_list[1],
                               host_target>>>>,
                           <<"live_mount_delete", <<live_mount_id>>>>>>
    /\ delete_request' = [id |-> "unmount_request", status |-> "QUEUED"]
    /\ Logged(<<<<"WARNING", "Unmounting backups.", None>>>>)
    /\ Goto("await_unmount")
    /\ UNCHANGED <<optionVars, configuration, source_host_db_list, host_target, rubrik_version,
                   cdm_version, oracle_db_info, target_id, time_ms,
                   live_mount_directories, new_live_mount_directories,
                   live_mount_directory, backup_path, live_mount_id, live_mount_info,
                   sql_return, init_file, duplicate_commands>>
    /\ UNCHANGED <<fs, environ>>

\* mutant: only FAILED is warned about
UnmountFailedOnly(status) == status = "FAILED"

\* line 266: the test that turns the unmount's status into a warning
UnmountFailed(status) == status # "SUCCEEDED"

\* lines 263-273
AwaitUnmount ==
    /\ pc = "await_unmount"
    /\ \E status \in Statuses :
          /\ delete_request' = [id |-> delete_request.id, status |-> status]
          /\ Called("async_requests_wait", <<delete_request.id, UnmountWaitBudget>>)
          /\ LET done == <<<<"INFO", "Async request completed with status", status>>,
                           <<"DEBUG", "delete_request", status>>>>
                 complete == <<<<"WARNING", "Database clone complete", None>>>>
             IN  IF UnmountFailed(status)
                 THEN Logged(done \o <<<<"WARNING",
                          "Unmount of backup files failed with status", status>>>>
                          \o complete)
                 ELSE Logged(done \o <<<<"INFO",
                          "Live mount of backup data files has been unmounted.",
                          live_mount_id>>,
                          <<"WARNING", "Backups unmounted", None>>>>
                          \o complete)
    /\ Goto("done")
    /\ UNCHANGED <<optionVars, configuration, source_host_db_list, host_target, rubrik_version,
                   cdm_version, oracle_db_info, target_id, time_ms,
                   live_mount_directories, new_live_mount_directories,
                   live_mount_directory, backup_path, live_mount_id, live_mount_info,
                   sql_return, init_file, duplicate_commands>>
    /\ UNCHANGED <<fs, environ>>

Next ==
    \/ ReadConfiguration
    \/ SetUpFileLogging
    \/ ValidateInput
    \/ Connect
    \/ ResolveTarget
    \/ ResolveTime
    \/ CheckOracleHome
    \/ SnapshotListing
    \/ RequestMount
    \/ AwaitMount
    \/ DiscoverMountDirectory
    \/ SetEnvironment
    \/ RefreshShutdown
    \/ StartAuxiliary
    \/ CheckAlreadyRunning
    \/ QueryInstance
    \/ BuildScript
    \/ ExecuteRestore
    \/ RequestUnmount
    \/ AwaitUnmount

Spec == Init /\ [][Next]_vars

\* ------------------------------------- the script builder on all its inputs
\* lines 229-253 read new_oracle_name, source_host_db[1], parallelism,
\* time_restore, no_spfile, the five directives, mount_path and
\* no_file_name_check.  ScriptSpec starts where line 228 is reached by a run
\* without configuration file, log path and refresh, on a 6.0.0 backend with a
\* single new directory, and draws the inputs of the builder from every
\* combination of the optional directives.

\* -p: 0 .. MaxParallelism, and a degree of two digits
Parallelisms == {IntToStr(n) : n \in 0..MaxParallelism} \cup {IntToStr(12)}

\* every combination of the five optional directives
DirectiveCombinations ==
    [control_files : {None, "'/c1.ctl','/c2.ctl'"},
     db_file_name_convert : {None, "'/d1/','/d2/'"},
     log_file_name_convert : {None, "'/l1/','/l2/'"},
     audit_file_dest : {None, "'/adump'"},
     core_dump_dest : {None, "'/cdump'"}]

\* the calls of lines 147-226 on that run
CallsBeforeScript ==
    <<<<"RubrikConnection", <<>>>>,
      <<"RubrikRbsOracleDatabase", <<source_host_db_list[2], source_host_db_list[1]>>>>,
      <<"get_oracle_db_info", <<>>>>,
      <<"get_target_id", <<"cluster_id", host_target>>>>,
      <<"epoch_time", <<TimeToResolve(time_restore, oracle_db_info), "timezone">>>>,
      <<"live_mount", <<target_id, time_ms, "files_only", mount_path>>>>,
      <<"async_requests_wait", <<live_mount_info.id, MountWaitBudget>>>>,
      <<"sqlplus_sysdba",
        IF WritesInitFile(no_spfile)
        THEN <<oracle_home, "startup nomount pfile=", init_file>>
        ELSE <<oracle_home, "startup nomount">>>>,
      <<"sqlplus_sysdba", <<oracle_home, "select instance_name from v$instance;">>>>>>

\* the records logged by lines 136-226 on that run
LogBeforeScript ==
    <<<<"DEBUG", "The hostname used for the target host is", host_target>>,
      <<"INFO", "Cluster version is post 5.2.1", cdm_version>>,
      IF time_restore # NoText
      THEN <<"WARNING", "Materializing backup set from time", time_restore>>
      ELSE <<"WARNING", "Using most recent recovery point for mount.", None>>,
      <<"WARNING", "Starting the mount of the requested backup pieces",
        source_host_db_list[2]>>,
      <<"DEBUG", "Backup Live Mount Asyc Request", "SUCCEEDED">>,
      <<"INFO", "Async request completed with status", "SUCCEEDED">>,
      <<"WARNING", "Live mount of the backup files completed.", None>>,
      <<"INFO", "Using the live mount path", backup_path>>,
      <<"DEBUG", "Live mount ID is", live_mount_id>>,
      <<"DEBUG", "Setting env variable ORACLE_HOME, ORACLE_SID", None>>>>
    \o (IF WritesInitFile(no_spfile)
        THEN <<<<"WARNING", "Creating minimal init file to start instance", None>>,
               <<"DEBUG", "Creating new temporary init file", init_file>>>>
        ELSE <<>>)
    \o <<<<"WARNING", "Starting auxiliary instance", None>>,
         <<"INFO", "sqlplus", <<"ORACLE instance started.">>>>,
         <<"INFO", "sqlplus", sql_return>>>>

InitScript ==
    /\ source_host_db = <<"h", ":">> \o NameOfLen(3)
    /\ mount_path = "/u02/restore"
    /\ new_oracle_name = NameOfLen(MaxOracleNameLen)
    /\ configuration_file = None
    /\ time_restore \in {NoText, TimeArg}
    /\ parallelism \in Parallelisms
    /\ no_spfile \in BOOLEAN
    /\ no_file_name_check \in BOOLEAN
    /\ refresh_db = FALSE
    /\ \E d \in DirectiveCombinations :
          /\ control_files = d.control_files
          /\ db_file_name_convert = d.db_file_name_convert
          /\ log_file_name_convert = d.log_file_name_convert
          /\ audit_file_dest = d.audit_file_dest
          /\ core_dump_dest = d.core_dump_dest
    /\ log_path = None
    /\ configuration = UnboundDict
    /\ source_host_db_list = Split(source_host_db, ":")
    /\ host_target = Split(Hostname, ".")[1]
    /\ rubrik_version = VersionString(6, 0, 0)
    /\ cdm_version = CdmVersion(rubrik_version)
    /\ oracle_db_info = [oracleHome |-> "/u01/src_home",
                         latestRecoveryPoint |-> RecoveryPoint]
    /\ oracle_home = HomeToUse(None, oracle_db_info)
    /\ target_id = <<"get_target_id", host_target>>
    /\ time_ms = EpochTime(TimeToResolve(time_restore, oracle_db_info), "timezone")
    /\ live_mount_directories = {}
    /\ new_live_mount_directories = {MountDir}
    /\ live_mount_directory = NewEntries(new_live_mount_directories, live_mount_directories)
    /\ backup_path = <<mount_path, MountDir>>
    /\ live_mount_id = MountIdTokens(MountDir)[2]
    /\ live_mount_info = [id |-> "mount_request", status |-> "SUCCEEDED"]
    /\ sql_return = <<"INSTANCE_NAME", "\n">> \o new_oracle_name
    /\ init_file = IF WritesInitFile(no_spfile)
                   THEN InitFile(oracle_home, new_oracle_name) ELSE Unbound
    /\ duplicate_commands = Unbound
    /\ delete_request = UnboundDict
    /\ pc = "build_script"
    /\ error = "none"
    /\ calls = CallsBeforeScript
    /\ fs = IF WritesInitFile(no_spfile)
            THEN {<<"initfile", init_file, InitFileText(new_oracle_name)>>} ELSE {}
    /\ environ = [ORACLE_HOME |-> oracle_home, ORACLE_SID |-> new_oracle_name]
    /\ log = LogBeforeScript

\* the builder, and the steps that use its script
NextScript ==
    \/ BuildScript
    \/ ExecuteRestore

ScriptSpec == InitScript /\ [][NextScript]_vars

\* ------------------------------------------------- what the claims speak of
CallNames == {calls[i][1] : i \in DOMAIN calls}

LogMessages == {log[i][2] : i \in DOMAIN log}

\* the steps before the first call to the backend
EarlySteps == {"read_configuration", "file_logging", "validate_input"}

InitialEnviron == [ORACLE_HOME |-> None, ORACLE_SID |-> NoText]

\* the run was stopped by one of the two checks of lines 140-145
InputValidationError ==
    /\ pc = "aborted"
    /\ error = WorkflowError
    /\ LogMessages \cap {"The new oracle name is too long",
                         "The new oracle db name cannot be the same as the source db name"}
           # {}

\* how many times the run waited for an asynchronous request
WaitsDone == Cardinality({i \in DOMAIN calls : calls[i][1] = "async_requests_wait"})

\* no step after the mount wait has left a trace
NothingAfterMountWait ==
    /\ calls[Len(calls)][1] = "async_requests_wait"
    /\ CallNames \cap {"sqlplus_sysdba", "rman", "live_mount_delete"} = {}
    /\ new_live_mount_directories = UnboundSet
    /\ live_mount_directory = UnboundSet
    /\ environ = InitialEnviron
    /\ init_file = Unbound
    /\ fs \subseteq LogArtifacts(log_path, new_oracle_name)
    /\ duplicate_commands = Unbound
    /\ delete_request = UnboundDict

\* no step of the instance bootstrap has left a trace
NoBootstrap ==
    /\ environ = InitialEnviron
    /\ "sqlplus_sysdba" \notin CallNames
    /\ init_file = Unbound

\* ------------------------------------------------------------------ claims
\* C1: a request with refresh_db true and no_file_name_check false (from the
\* command line or from the configuration file) is rejected before any backend
\* call is made, and so never completes.
C1_RefreshWithoutNoFileNameCheckRejected ==
    (pc # "read_configuration" /\ refresh_db /\ ~no_file_name_check)
        => (calls = <<>> /\ pc # "done")

\* C2: a new instance name longer than 8 characters ends the run with the
\* workflow error before any backend call; a name of 8 characters or less is
\* never rejected as too long.
C2_LongNameRejected ==
    /\ Len(new_oracle_name) > 8 =>
          /\ calls = <<>>
          /\ pc \in EarlySteps \cup {"aborted"}
          /\ pc = "aborted" => error = WorkflowError
    /\ Len(new_oracle_name) <= 8 => "The new oracle name is too long" \notin LogMessages

C2_Witness ==
    /\ pc = "aborted"
    /\ Len(new_oracle_name) > 8
    /\ error = WorkflowError
    /\ "The new oracle name is too long" \in LogMessages
    /\ calls = <<>>

\* C3: a new instance name equal to the database part of the host:database
\* argument ends the run with the workflow error before any backend call.
C3_SameNameRejected ==
    LET parts == Split(source_host_db, ":")
    IN  (Len(parts) >= 2 /\ new_oracle_name = parts[2]) =>
            /\ calls = <<>>
            /\ pc \in EarlySteps \cup {"aborted"}
            /\ pc = "aborted" => error = WorkflowError

C3_Witness ==
    /\ pc = "aborted"
    /\ Len(Split(source_host_db, ":")) >= 2
    /\ new_oracle_name = Split(source_host_db, ":")[2]
    /\ error = WorkflowError
    /\ "The new oracle db name cannot be the same as the source db name" \in LogMessages
    /\ calls = <<>>

C5_FailedMountAborts ==
    (WaitsDone >= 1 /\ live_mount_info.status # "SUCCEEDED") =>
        /\ pc = "aborted"
        /\ error = WorkflowError
        /\ NothingAfterMountWait

C5_Witness ==
    /\ WaitsDone = 1
    /\ live_mount_info.status = "TIMEOUT"
    /\ pc = "aborted"
    /\ error = WorkflowError

\* C6: after a successful mount the new directory is the difference between
\* the listing taken after the mount and the one taken before the mount
\* request: one new entry is used as the mount directory, any other number
\* aborts the run with the workflow error before the instance bootstrap.
C6_DirectoryIsListingDifference ==
    new_live_mount_directories # UnboundSet =>
        LET difference == new_live_mount_directories \ live_mount_directories
        IN  /\ live_mount_directory = difference
            /\ Cardinality(difference) = 1 =>
                  \E d \in difference : backup_path = <<mount_path, d>>
            /\ Cardinality(difference) # 1 =>
                  /\ pc = "aborted"
                  /\ error = WorkflowError
                  /\ backup_path = Unbound
                  /\ NoBootstrap

C6_Witness ==
    /\ live_mount_directories = {StaleDir}
    /\ new_live_mount_directories = {StaleDir, MountDir}
    /\ backup_path = <<mount_path, MountDir>>
    /\ pc = "set_environment"

\* C7: for a single new directory, the identifier passed to the unmount
\* request is the second token of its name split on underscore, and a name
\* without an underscore ends the run with the workflow error.
C7_MountIdOrWorkflowError ==
    (new_live_mount_directories # UnboundSet /\ Cardinality(live_mount_directory) = 1) =>
        LET name == CHOOSE d \in live_mount_directory : TRUE
            tokens == Split(name, "_")
        IN  IF Len(tokens) >= 2
            THEN \A i \in DOMAIN calls :
                    calls[i][1] = "live_mount_delete" => calls[i][2] = <<tokens[2]>>
            ELSE pc = "aborted" /\ error = WorkflowError

\* C8: when the restore has run and the unmount wait hands back a status other
\* than SUCCEEDED, no error is raised, a warning about the unmount is logged
\* and the run ends by reporting that the clone is complete.
C8_FailedUnmountIsWarning ==
    (WaitsDone = 2 /\ delete_request.status # "SUCCEEDED") =>
        /\ "rman" \in CallNames
        /\ pc = "done"
        /\ error = "none"
        /\ \E i \in DOMAIN log :
              log[i] = <<"WARNING", "Unmount of backup files failed with status",
                         delete_request.status>>
        /\ log[Len(log)] = <<"WARNING", "Database clone complete", None>>

C8_Witness ==
    /\ pc = "done"
    /\ WaitsDone = 2
    /\ delete_request.status = "FAILED"
    /\ error = "none"

\* the version is below 5.2.1, comparing major, then minor, then patch
Below521(v) ==
    LET major == ParseInt(v[1])
        minor == ParseInt(v[2])
        patch == ParseInt(v[3])
    IN  \/ major < 5
        \/ major = 5 /\ minor < 2
        \/ major = 5 /\ minor = 2 /\ patch < 1

\* the run took the branch of line 153
TookPreThresholdBranch == "Cluster version is pre 5.2.1" \in LogMessages

\* C9: the pre-threshold branch is taken exactly when the backend version is
\* below 5.2.1 under component-wise comparison.
C9_PreThresholdIffBelow521 ==
    cdm_version # Unbound => (TookPreThresholdBranch <=> Below521(cdm_version))

LookupNames == {"get_rac_id", "get_host_id", "get_target_id"}

\* C10: exactly one target lookup is made before the mount request: the
\* cluster lookup on the pre-threshold branch for a clustered source, the host
\* lookup on that branch for a single-host source (racName empty or missing),
\* the unified lookup otherwise; the mount is never requested without a target
\* and a run that ends without a target ends with the workflow error.
C10_ExactlyOneLookup ==
    cdm_version # Unbound =>
        LET clustered ==
                "racName" \in DOMAIN oracle_db_info /\ oracle_db_info.racName # ""
            expected ==
                IF TookPreThresholdBranch
                THEN (IF clustered THEN "get_rac_id" ELSE "get_host_id")
                ELSE "get_target_id"
            lookups == {i \in DOMAIN calls : calls[i][1] \in LookupNames}
        IN  /\ Cardinality(lookups) = 1
            /\ \A i \in lookups : calls[i][1] = expected
            /\ "live_mount" \in CallNames => target_id # Unbound
            /\ (pc = "aborted" /\ target_id = Unbound) => error = WorkflowError

\* how many pieces of the script are this piece of text
Count(script, piece) == Cardinality({i \in DOMAIN script : script[i] = piece})

\* the set-clause of a directive is in the script once, with the directive's
\* value, when the directive is given, and not at all when it is not
SetClauseIffGiven(script, keyword, value) ==
    IF value # None
    THEN /\ Count(script, keyword) = 1
         /\ \E i \in 1..(Len(script) - 2) :
               script[i] = keyword /\ script[i + 1] = value /\ script[i + 2] = " "
    ELSE Count(script, keyword) = 0

\* C11: for every combination of the optional directives the script holds a
\* directive's clause exactly when the directive is present, and then once:
\* the until-time clause iff time_restore is given, each of the five
\* set-clauses iff its value is given, the parameter_value_convert clause iff
\* no_spfile is false.
C11_ClauseIffDirective ==
    duplicate_commands # Unbound =>
        /\ Count(duplicate_commands, "until time \"TO_DATE('")
              = Given(time_restore # NoText)
        /\ Count(duplicate_commands, "SPFILE parameter_value_convert ('")
              = Given(~no_spfile)
        /\ SetClauseIffGiven(duplicate_commands, "set  control_files = ", control_files)
        /\ SetClauseIffGiven(duplicate_commands, "set  db_file_name_convert = ",
                             db_file_name_convert)
        /\ SetClauseIffGiven(duplicate_commands, "set  log_file_name_convert = ",
                             log_file_name_convert)
        /\ SetClauseIffGiven(duplicate_commands, "set  audit_file_dest = ",
                             audit_file_dest)
        /\ SetClauseIffGiven(duplicate_commands, "set  core_dump_dest = ",
                             core_dump_dest)

C11_Witness ==
    /\ pc = "execute_restore"
    /\ time_restore # NoText
    /\ no_spfile
    /\ control_files # None
    /\ db_file_name_convert = None
    /\ log_file_name_convert = None
    /\ audit_file_dest # None
    /\ core_dump_dest = None
    /\ Count(duplicate_commands, "set  control_files = ") = 1
    /\ Count(duplicate_commands, "set  audit_file_dest = ") = 1
    /\ Count(duplicate_commands, "set  db_file_name_convert = ") = 0
    /\ Count(duplicate_commands, "SPFILE parameter_value_convert ('") = 0
    /\ Count(duplicate_commands, "until time \"TO_DATE('") = 1

\* the pieces that open a clause, in the order of the claim; the terminator
\* is either of the last two
ClauseOrder ==
    <<"run { ", "allocate auxiliary channel aux", "duplicate database to ",
      "until time \"TO_DATE('", "SPFILE parameter_value_convert ('",
      "set  control_files = ", "set  db_file_name_convert = ",
      "set  log_file_name_convert = ", "set  audit_file_dest = ",
      "set  core_dump_dest = ", "BACKUP LOCATION '", "NOFILENAMECHECK; }", "; }">>

\* the place in ClauseOrder of a piece that opens a clause, 0 for any other piece
ClauseRank(piece) ==
    IF \E k \in DOMAIN ClauseOrder : ClauseOrder[k] = piece
    THEN CHOOSE k \in DOMAIN ClauseOrder : ClauseOrder[k] = piece
    ELSE 0

\* C12: the script holds exactly N allocate clauses, aux1 .. auxN in this
\* order, N being the degree of parallelism; its clauses come in the order
\* channels, duplicate-to-target, until-time, parameter-value-convert, control
\* files, datafile remap, log remap, audit destination, core-dump destination,
\* one backup-location clause with the mount path, terminator; the terminator
\* is the NOFILENAMECHECK one exactly when no_file_name_check is set.
C12_ChannelsAndOrder ==
    duplicate_commands # Unbound =>
        LET script == duplicate_commands
            allocs == {i \in DOMAIN script : script[i] = "allocate auxiliary channel aux"}
            opening == {i \in DOMAIN script : ClauseRank(script[i]) > 0}
            last == Len(script)
        IN  /\ Cardinality(allocs) = ParseInt(parallelism)
            /\ \A i \in allocs :
                  LET number == IntToStr(Cardinality({j \in allocs : j <= i}))
                  IN  /\ SubSeq(script, i + 1, i + Len(number)) = number
                      /\ script[i + Len(number) + 1] = " device type disk; "
            /\ \A i, j \in opening :
                  i < j => ClauseRank(script[i]) <= ClauseRank(script[j])
            /\ script[1] = "run { "
            /\ Count(script, "duplicate database to ") = 1
            /\ \E i \in DOMAIN script :
                  /\ script[i] = "duplicate database to "
                  /\ SubSeq(script, i + 1, i + Len(new_oracle_name)) = new_oracle_name
            /\ Count(script, "BACKUP LOCATION '") = 1
            /\ script[last - 3] = "BACKUP LOCATION '"
            /\ script[last - 2] = mount_path
            /\ script[last] = (IF no_file_name_check THEN "NOFILENAMECHECK; }" ELSE "; }")
            /\ Count(script, "NOFILENAMECHECK; }") = Given(no_file_name_check)
            /\ Count(script, "; }") = Given(~no_file_name_check)

C12_Witness ==
    /\ pc = "execute_restore"
    /\ parallelism = IntToStr(12)
    /\ Count(duplicate_commands, "allocate auxiliary channel aux") = 12
    /\ time_restore # NoText
    /\ ~no_spfile
    /\ control_files # None
    /\ db_file_name_convert # None
    /\ log_file_name_convert # None
    /\ audit_file_dest # None
    /\ core_dump_dest # None
    /\ no_file_name_check
    /\ duplicate_commands[Len(duplicate_commands)] = "NOFILENAMECHECK; }"

\* the startup commands sent to sqlplus so far, as places in calls
StartupCalls ==
    {i \in DOMAIN calls :
        /\ calls[i][1] = "sqlplus_sysdba"
        /\ calls[i][2][2] \in {"startup nomount", "startup nomount pfile="}}

InitFilesWritten == {f \in fs : f[1] = "initfile"}

\* the instance was started with a minimal init file written for it
StartedWithMinimalInitFile ==
    /\ init_file = InitFile(oracle_home, new_oracle_name)
    /\ InitFilesWritten =
          {<<"initfile", init_file, <<"db_name=">> \o new_oracle_name \o <<"\n">>>>}
    /\ \A i \in StartupCalls :
          calls[i][2] = <<oracle_home, "startup nomount pfile=", init_file>>

\* the instance was started without any file being written
StartedWithoutInitFile ==
    /\ init_file = Unbound
    /\ InitFilesWritten = {}
    /\ \A i \in StartupCalls : calls[i][2] = <<oracle_home, "startup nomount">>

\* C13 as stated: with no_spfile true a minimal init file holding only
\* db_name=<new name> is written under the database home and the instance is
\* started nomount with it; with no_spfile false no file is written and the
\* instance is started nomount from the saved server parameter file.
C13_InitFileWhenSkippingSpfile ==
    StartupCalls # {} =>
        IF no_spfile THEN StartedWithMinimalInitFile ELSE StartedWithoutInitFile

\* C13 as amended: the init file is written, and the instance started with
\* it, when no_spfile is false (the script then restores the server parameter
\* file); with no_spfile true nothing is written and the instance is started
\* with a plain startup nomount; one startup command per run, and no init file
\* before it.
C13_InitFileUnlessSkippingSpfile ==
    /\ Cardinality(StartupCalls) <= 1
    /\ StartupCalls = {} => (init_file = Unbound /\ InitFilesWritten = {})
    /\ StartupCalls # {} =>
          IF no_spfile THEN StartedWithoutInitFile ELSE StartedWithMinimalInitFile

C13_Witness ==
    /\ pc = "check_running"
    /\ ~no_spfile
    /\ StartupCalls # {}
    /\ StartedWithMinimalInitFile

\* the instance name in an answer of the identity query: what follows the
\* column heading
ReportedName(answer) == SubSeq(answer, 3, Len(answer))

\* the identity query has been answered
IdentityQueried ==
    \E i \in DOMAIN calls :
        /\ calls[i][1] = "sqlplus_sysdba"
        /\ calls[i][2][2] = "select instance_name from v$instance;"

\* the answers of sqlplus the run has logged
SqlplusAnswers == {log[i][3] : i \in {j \in DOMAIN log : log[j][2] = "sqlplus"}}

\* C14: the restore is executed only when the startup answer did not hold the
\* already-running error and the instance name reported by the identity query
\* equals the requested name; a reported name that only contains the
\* requested name aborts the run with the workflow error before the restore.
C14_RestoreOnlyAfterIdentityVerified ==
    /\ "rman" \in CallNames =>
          /\ \A answer \in SqlplusAnswers : ~Contains(answer, AlreadyRunning)
          /\ ReportedName(sql_return) = new_oracle_name
    /\ (IdentityQueried /\ ReportedName(sql_return) # new_oracle_name) =>
          (pc = "aborted" /\ error = WorkflowError)

\* the step of the workflow a position of cli belongs to: 1 input validation,
\* 2 target resolution, 3 time resolution, 4 home validation, 5 listing
\* snapshot, 6 mount request, 7 mount wait, 8 directory discovery, 9 instance
\* bootstrap, 10 script build, 11 restore, 12 unmount request, 13 unmount wait,
\* 14 done; 0 is what comes before input validation
StepOf(position) ==
    CASE position \in {"read_configuration", "file_logging"} -> 0
      [] position = "validate_input" -> 1
      [] position \in {"connect", "resolve_target"} -> 2
      [] position = "resolve_time" -> 3
      [] position = "check_home" -> 4
      [] position = "snapshot_listing" -> 5
      [] position = "request_mount" -> 6
      [] position = "await_mount" -> 7
      [] position = "discover" -> 8
      [] position \in {"set_environment", "refresh_shutdown", "start_auxiliary",
                       "check_running", "query_instance"} -> 9
      [] position = "build_script" -> 10
      [] position = "execute_restore" -> 11
      [] position = "request_unmount" -> 12
      [] position = "await_unmount" -> 13
      [] position = "done" -> 14

\* the step an external call belongs to
StepOfCall(call) ==
    CASE call[1] \in {"RubrikConnection", "RubrikRbsOracleDatabase",
                      "get_oracle_db_info"} \cup LookupNames -> 2
      [] call[1] = "epoch_time" -> 3
      [] call[1] = "live_mount" -> 6
      [] call[1] = "async_requests_wait" ->
            (IF call[2][2] = MountWaitBudget THEN 7 ELSE 13)
      [] call[1] = "sqlplus_sysdba" -> 9
      [] call[1] = "rman" -> 11
      [] call[1] \in {"RubrikRbsOracleMount", "live_mount_delete"} -> 12

CountCalls(sequence, name) ==
    Cardinality({i \in DOMAIN sequence : sequence[i][1] = name})

\* one step of a run, as the claim allows it
OrderedStep ==
    /\ pc \notin {"aborted", "done"}
    /\ error = "none"
    /\ \/ pc' = "aborted" /\ error' # "none"
       \/ /\ error' = "none"
          /\ StepOf(pc') \in {StepOf(pc), StepOf(pc) + 1}
    /\ Len(calls') >= Len(calls)
    /\ SubSeq(calls', 1, Len(calls)) = calls
    /\ \A i \in (Len(calls) + 1)..Len(calls') : StepOfCall(calls'[i]) = StepOf(pc)
    /\ CountCalls(calls', "live_mount") <= 1
    /\ CountCalls(calls', "rman") <= 1
    /\ CountCalls(calls', "live_mount_delete") <= 1

\* C15: the steps of a run come in the order input validation, target
\* resolution, time resolution, home validation, listing snapshot, mount
\* request, mount wait, directory discovery, instance bootstrap, script build,
\* restore, unmount request, unmount wait, done; every external call is made
\* in its own step; nothing follows a fatal error; the mount request, the
\* restore and the unmount request are each made at most once.
C15_StepsInOrder == [][OrderedStep]_vars

C15_Witness ==
    /\ pc = "done"
    /\ error = "none"
    /\ [i \in DOMAIN calls |-> StepOfCall(calls[i])]
          = <<2, 2, 2, 2, 3, 6, 7, 9, 9, 11, 12, 12, 13>>

\* the value the run uses for a parameter is the one the file gives for its key
FileSays(key, value) == key \in DOMAIN configuration => value = configuration[key]

\* the same for a flag, the file's text read as true or false
FileSaysFlag(key, flag) ==
    key \in DOMAIN configuration => flag = GetBoolean(configuration[key])

\* C16: once the configuration file is read, every optional parameter that has
\* a key in its [parameters] section has the file's value, whatever the
\* command line gave; a flag has the true/false value written in the file.
C16_FileValueOverrides ==
    (pc = "file_logging" /\ configuration_file # None) =>
        /\ FileSays("parallelism", parallelism)
        /\ FileSaysFlag("no_spfile", no_spfile)
        /\ FileSays("time_restore", time_restore)
        /\ FileSays("oracle_home", oracle_home)
        /\ FileSaysFlag("no_file_name_check", no_file_name_check)
        /\ FileSaysFlag("refresh_db", refresh_db)
        /\ FileSays("control_files", control_files)
        /\ FileSays("db_file_name_convert", db_file_name_convert)
        /\ FileSays("log_file_name_convert", log_file_name_convert)
        /\ FileSays("audit_file_dest", audit_file_dest)
        /\ FileSays("core_dump_dest", core_dump_dest)
        /\ FileSays("log_path", log_path)

RECURSIVE ReplaceChar(_, _, _)
\* the text with every c replaced by d
ReplaceChar(text, c, d) ==
    IF text = <<>> THEN <<>>
    ELSE <<IF Head(text) = c THEN d ELSE Head(text)>> \o ReplaceChar(Tail(text), c, d)

\* the time literal of the script: what stands between the opening of the
\* until-time clause and the format mask
TimeLiteral(script) ==
    LET from == CHOOSE i \in DOMAIN script : script[i] = "until time \"TO_DATE('"
        to == CHOOSE i \in DOMAIN script : script[i] = "','YYYY-MM-DD HH24:MI:SS')\"  "
    IN  SubSeq(script, from + 1, to - 1)

\* C17: the time literal of the until-time clause is the restore time given in
\* the form YYYY-MM-DDTHH:MM:SS with its date part and its time part separated
\* by a single space, as the format mask YYYY-MM-DD HH24:MI:SS has them.
C17_TimeLiteralSingleSpace ==
    (duplicate_commands # Unbound
        /\ Count(duplicate_commands, "until time \"TO_DATE('") = 1) =>
        TimeLiteral(duplicate_commands) = ReplaceChar(TimeArg, "T", " ")

\* the shutdown commands sent to sqlplus so far, as places in calls
ShutdownCalls ==
    {i \in DOMAIN calls :
        /\ calls[i][1] = "sqlplus_sysdba"
        /\ calls[i][2][2] = "shutdown immediate;"}

\* C18: with refresh_db set, one shutdown immediate is sent, after the mount
\* directory has been discovered and before the startup command, and the
\* startup command follows whatever the shutdown answered; with refresh_db not
\* set no shutdown is ever sent.
C18_RefreshShutsDownOnce ==
    /\ ~refresh_db => ShutdownCalls = {}
    /\ refresh_db =>
          /\ Cardinality(ShutdownCalls) <= 1
          /\ (pc = "start_auxiliary" \/ StartupCalls # {}) =>
                Cardinality(ShutdownCalls) = 1
          /\ \A i \in ShutdownCalls :
                /\ backup_path # Unbound
                /\ live_mount_id # Unbound
                /\ \E j \in 1..(i - 1) : calls[j][1] = "async_requests_wait"
                /\ \A k \in StartupCalls : i < k
          /\ (ShutdownCalls # {} /\ pc # "start_auxiliary") => StartupCalls # {}

C18_Witness ==
    /\ refresh_db
    /\ pc = "check_running"
    /\ Cardinality(ShutdownCalls) = 1
    /\ Cardinality(StartupCalls) = 1
    /\ \E i \in DOMAIN log :
          log[i] = <<"INFO", "sqlplus", <<"ORA-01034: ORACLE not available">>>>

\* the mount wait handed back SUCCEEDED
MountSucceeded == WaitsDone >= 1 /\ live_mount_info.status = "SUCCEEDED"

\* C19: a run that is aborted after the mount succeeded and before the restore
\* (more or less than one new directory, an instance already running, an
\* instance of another name) never requests the unmount and leaves the mount
\* in place; the unmount is requested only in runs that executed the restore.
C19_NoUnmountWithoutRestore ==
    /\ CallNames \cap {"RubrikRbsOracleMount", "live_mount_delete"} # {} =>
          "rman" \in CallNames
    /\ (pc = "aborted" /\ MountSucceeded /\ "rman" \notin CallNames) =>
          /\ calls[Len(calls)][1] \in {"async_requests_wait", "sqlplus_sysdba"}
          /\ CountCalls(calls, "async_requests_wait") = 1
          /\ delete_request = UnboundDict

C19_Witness ==
    /\ pc = "aborted"
    /\ error = WorkflowError
    /\ MountSucceeded
    /\ "DB Instance check failed" \in LogMessages
    /\ "rman" \notin CallNames
    /\ "live_mount_delete" \notin CallNames

\* the rman call has returned: its answer is in the log
RestoreReturned == \E i \in DOMAIN log : log[i][2] = "rman"

\* C20: whenever the rman call returns, whatever it answers, the run logs that
\* the duplicate is complete, requests one unmount, for the mount id taken at
\* discovery from the new directory's name, and ends by reporting that the
\* clone is complete; a restore stops the run only when the call itself raises.
C20_RestoreOutputNotInspected ==
    /\ RestoreReturned =>
          /\ \E i \in DOMAIN log :
                log[i] = <<"WARNING", "Duplicate of database complete.", new_oracle_name>>
          /\ error = "none"
          /\ pc \in {"request_unmount", "await_unmount", "done"}
          /\ CountCalls(calls, "live_mount_delete") = Given(pc # "request_unmount")
          /\ \A i \in DOMAIN calls :
                calls[i][1] = "live_mount_delete" =>
                   /\ calls[i][2] = <<live_mount_id>>
                   /\ \E d \in live_mount_directory : live_mount_id = Split(d, "_")[2]
          /\ pc = "done" => log[Len(log)] = <<"WARNING", "Database clone complete", None>>
    /\ ("rman" \in CallNames /\ ~RestoreReturned) =>
          /\ pc = "aborted"
          /\ error # "none"
          /\ "live_mount_delete" \notin CallNames

C20_Witness ==
    /\ pc = "done"
    /\ error = "none"
    /\ \E i \in DOMAIN log :
          log[i] = <<"INFO", "rman", <<"RMAN-03002: failure of Duplicate Db command">>>>
    /\ CountCalls(calls, "live_mount_delete") = 1
    /\ log[Len(log)] = <<"WARNING", "Database clone complete", None>>

====
